---- MODULE Spec2Model ----
(***************************************************************************)
(* moveit_grasps: GraspFilter (src/src/grasp_filter.cpp).                  *)
(*                                                                         *)
(*   Spec          - GraspFilter::filterGrasps with its helper and its IK  *)
(*                   worker threads, called any number of times on one     *)
(*                   GraspFilter object (kin_solvers_ persists).           *)
(*   SpecChoose    - GraspFilter::chooseBestGrasp on bounded lists.        *)
(*   SpecPartition - the index ranges filterGraspsHelper hands to its      *)
(*                   threads, for larger candidate counts.                 *)
(*   SpecRerun     - filterGrasps on a robot whose solvers load, with the  *)
(*                   solver calls of the first helper run kept, to compare *)
(*                   the verbose re-run with it.                           *)
(*   SpecCollision - GraspFilter::filterGraspsInCollision with its helper, *)
(*                   called any number of times on one GraspFilter object  *)
(*                   (robot_state_ persists) while the planning scene      *)
(*                   changes under it.                                     *)
(*   SpecSeed      - the same calls with longer candidate lists, so that a *)
(*                   thread's range holds several solver calls.            *)
(*   SpecFair      - Spec under a scheduler that lets every thread that    *)
(*                   can take a step take one in the end.                  *)
(*   SpecGenerate  - the intersection test GraspGenerator::generateGrasps  *)
(*                   puts every enumerated pose to (declared in            *)
(*                   src/include/moveit_grasps/grasp_generator.h).         *)
(*                                                                         *)
(* Candidates are the indices 0..n-1 of possible_grasps.  A joint          *)
(* configuration is EmptyCfg (an empty vector), ZeroCfg (num_variables_    *)
(* zeros) or the result of one searchPositionIK call, named after the      *)
(* pose the call was given (GraspCfg, PregraspCfg).                        *)
(***************************************************************************)
EXTENDS Integers, Sequences, FiniteSets, TLC

\* ------------------------------------------------------------------ bounds
MaxGrasps == 2        \* candidates per filterGrasps call: 0..MaxGrasps
MaxHW == 2            \* boost::thread::hardware_concurrency() reports 0..MaxHW
MaxEE == 2            \* attached end effector names of the arm group: 0..MaxEE
MaxChoose == 3        \* length of the list given to chooseBestGrasp
MaxPartGrasps == 36   \* candidates in SpecPartition
MaxSolutions == 3     \* solutions given to filterGraspsInCollision: 0..MaxSolutions
MaxSeedGrasps == 4     \* candidates per filterGrasps call in SpecSeed
MaxCoord == 2         \* coordinates of a pose's points: -MaxCoord..MaxCoord

VARIABLES
  \* ---- filterGrasps / filterGraspsHelper (main thread)
  pc,               \* "idle" | "helper" | "spawn" | "check" | "done" | "crashed"
  call,             \* the arguments and environment of the call in progress
  filtered_grasps,  \* std::vector<GraspSolution>& filtered_grasps
  verbose,          \* bool verbose of filterGrasps
  result,           \* bool result of filterGrasps
  ret,              \* what filterGrasps returned: "none" | "true" | "false"
  kin_solvers,      \* kin_solvers_[arm_jmg->getName()], a member: kept across calls
  kin_capacity,     \* whether that vector has storage (it has held an element)
  link_transform,   \* Eigen::Affine3d link_transform of the helper
  num_threads,      \* std::size_t num_threads of the helper
  created,          \* the helper's loop variable i of the thread creation loop
  grasps_id_end,    \* int grasps_id_end of the helper
  lock,             \* boost::mutex lock of the helper: Free or the holder's id
  th,               \* the threads of bgroup: thread id -> its locals
  \* ---- what happened in the call in progress (observation only)
  runs,             \* filterGraspsHelper invocations
  instCalls,        \* getSolverInstance() invocations
  instNull,         \* some getSolverInstance() returned a null handle
  noLink,           \* the helper returned at "if (!lm) return false"
  invalidRead,      \* line 203 read kin_solvers_[name][0] where there is none
  started,          \* threads created
  firstCount,       \* filtered_grasps.size() after the first helper run, -1 before
  firstThreads,     \* num_threads of the first helper run, -1 before
  ikLog,            \* candidate -> error codes of its IK calls in the current run
                    \*   and the seed its grasp IK call was given
  firstRun,         \* ikLog and link_transform of the first helper run, where
                    \*   the specification keeps them (SpecRerun)
  \* ---- chooseBestGrasp
  cpc,              \* "off" | "entry" | "loop" | "done"
  c_grasps,         \* filtered_grasps given to chooseBestGrasp
  c_i,              \* loop index i
  max_quality,      \* double max_quality
  chosen,           \* GraspSolution& chosen
  c_ret,            \* "none" | "true" | "false"
  \* ---- partitioning alone
  ppc,              \* "off" | "loop" | "done"
  p_n,              \* possible_grasps.size()
  p_threads,        \* num_threads
  p_i,              \* loop index i
  p_end,            \* grasps_id_end
  p_ranges,         \* the <<grasps_id_start, grasps_id_end>> handed out so far
  \* ---- filterGraspsInCollision / filterGraspsInCollisionHelper
  bpc,              \* "off" | "idle" | "helper" | "loop" | "sleep" | "done" | "crashed"
  possible_grasps,  \* std::vector<GraspSolution>& possible_grasps of the call
  original_possible_grasps,  \* the copy of line 401
  robot_state,      \* *robot_state, the caller's robot state
  b_verbose,        \* bool verbose of filterGraspsInCollision
  b_ret,            \* what filterGraspsInCollision returned
  h_list,           \* which vector the helper was given: "possible" | "original"
  h_verbose,        \* bool verbose of the helper
  grasp_it,         \* the helper's iterator, as an index from begin()
  cloned_scene,     \* planning_scene::PlanningScenePtr cloned_scene of the helper
  robot_state_,     \* *robot_state_, a member: kept across calls
  planning_scene,   \* the scene the planning_scene_monitor maintains
  \* ---- what happened in the call in progress (observation only)
  b_input,          \* possible_grasps as the call received it
  b_passes,         \* filterGraspsInCollisionHelper invocations
  b_clones,         \* PlanningScene::clone invocations
  b_first_scene,    \* the scene the first clone of the call copied, -1 before
  b_first_size,     \* possible_grasps.size() after the first pass, -1 before
  h_input,          \* the helper's vector as the pass received it
  b_tests,          \* the isStateColliding calls of the current pass, in order
  b_all_tests,      \* the isStateColliding calls of the call, in order
  b_invalid,        \* grasp_it was used after erase() had invalidated it
  b_again,          \* the call runs on the list the call before it handed back
  \* GraspGenerator::generateGrasps, one enumerated pose
  gpc,              \* where generateGrasps stands with the pose
  cuboid,           \* depth, width and height of the cuboid
  grasp_pose,       \* the pose's approach segment in the cuboid's frame
  g_possible_grasps \* generateGrasps's output possible_grasps

fvars == <<pc, call, filtered_grasps, verbose, result, ret, kin_solvers, kin_capacity,
           link_transform, num_threads, created, grasps_id_end, lock, th,
           runs, instCalls, instNull, noLink, invalidRead, started,
           firstCount, firstThreads, ikLog, firstRun>>
cvars == <<cpc, c_grasps, c_i, max_quality, chosen, c_ret>>
pvars == <<ppc, p_n, p_threads, p_i, p_end, p_ranges>>
bvars == <<bpc, possible_grasps, original_possible_grasps, robot_state, b_verbose,
           b_ret, h_list, h_verbose, grasp_it, cloned_scene, robot_state_,
           planning_scene, b_input, b_passes, b_clones, b_first_scene,
           b_first_size, h_input, b_tests, b_all_tests, b_invalid, b_again>>
gvars == <<gpc, cuboid, grasp_pose, g_possible_grasps>>
vars == <<fvars, cvars, pvars, bvars, gvars>>

\* ------------------------------------------------------------- vocabulary
\* moveit_msgs::MoveItErrorCodes values the code tests for; Failure stands for
\* every other value.
Success == "SUCCESS"
NoIkSolution == "NO_IK_SOLUTION"
TimedOut == "TIMED_OUT"
Failure == "FAILURE"
ErrorCodes == {Success, NoIkSolution, TimedOut, Failure}
NoCode == "none"

\* joint configurations: a cleared vector, num_variables_ zeros, and what
\* searchPositionIK wrote for the grasp pose / the pre-grasp pose of candidate c
EmptyCfg == -1
ZeroCfg == 0
\* the largest candidate count of any specification
MaxCandidates == IF MaxSeedGrasps > MaxGrasps THEN MaxSeedGrasps ELSE MaxGrasps
GraspCfg(c) == 1 + c
PregraspCfg(c) == 1 + MaxCandidates + c

\* a null kinematics::KinematicsBasePtr; instances are numbered from 1
NullSolver == 0
\* the mutex when no thread holds it; a holder is named by its thread id
Free == -1

Threads == 0..(MaxHW - 1)
Candidates == 0..(MaxCandidates - 1)

\* A solution the caller's vector may hold when filterGrasps is called.
StaleGrasp == -1
StaleSolution == [grasp |-> StaleGrasp, grasp_ik_solution_ |-> ZeroCfg,
                  pregrasp_ik_solution_ |-> ZeroCfg]
StaleLists == {<<>>, <<StaleSolution>>}

\* Where the solver's base frame stands to the robot model frame.
Frames == {"same", "link", "nolink"}
\* link_transform is declared without an initialiser: its value is whatever
\* the stack holds until line 215 assigns it.
UninitTransforms == {"uninit_a", "uninit_b"}
LinkInverse == "link_inverse"

NoCall == [n |-> 0, ee |-> 0, filter_pregrasp |-> FALSE, hw |-> 0, frame |-> "same"]
NoThread == [pc |-> "none", start |-> 0, end |-> 0, i |-> 0, seed |-> ZeroCfg,
             grasp_ik_solution |-> EmptyCfg, pregrasp_ik_solution |-> EmptyCfg,
             kin_solver |-> NullSolver]
NoLog == [c \in Candidates |-> [grasp |-> NoCode, pregrasp |-> NoCode, seed |-> EmptyCfg]]
NoRun == [log |-> NoLog, link_transform |-> "uninit_a"]

CeilDiv(a, b) == (a + b - 1) \div b

\* ------------------------------------------------------------ partitioning
\* ceil(num_grasps_per_thread*(i+1)) is computed in doubles: n/t is rounded,
\* then multiplied by i+1 and rounded again.  When n*(i+1)/t is a whole number
\* k the product can land just above k, and ceil gives k+1.  RoundsUp lists
\* every <<n, t, i>> with i < t <= n <= 48 for which IEEE-754 binary64 does so;
\* for all others in that range the result is the exact ceiling.  Where
\* i = t-1 the clipping of line 236 takes the extra one away again; the
\* first range that ends one later than the exact ceiling is the 21st of 28
\* threads on 36 candidates.
RoundsUp ==
  {<<21, 19, 18>>, <<23, 21, 20>>, <<25, 11, 10>>, <<25, 22, 21>>,
   <<27, 13, 12>>, <<27, 21, 20>>, <<27, 23, 22>>, <<27, 26, 25>>,
   <<28, 25, 24>>, <<29, 7, 6>>, <<29, 14, 13>>, <<29, 27, 26>>,
   <<29, 28, 27>>, <<30, 29, 28>>, <<31, 15, 14>>, <<31, 30, 29>>,
   <<36, 28, 20>>, <<42, 19, 18>>, <<42, 38, 18>>, <<42, 38, 37>>,
   <<45, 35, 20>>, <<46, 21, 20>>, <<46, 41, 40>>, <<46, 42, 20>>,
   <<46, 42, 41>>, <<47, 23, 22>>, <<47, 46, 45>>}

CeilDouble(n, t, i) ==
  CeilDiv(n * (i + 1), t) + (IF <<n, t, i>> \in RoundsUp THEN 1 ELSE 0)

\* (variant: the share computed by integer division)
GraspsIdEndFloor(n, t, i) ==
  IF (n \div t) * (i + 1) >= n THEN n ELSE (n \div t) * (i + 1)

\* grasps_id_end after iteration i of the creation loop (lines 235-237)
GraspsIdEnd(n, t, i) ==
  IF CeilDouble(n, t, i) >= n THEN n ELSE CeilDouble(n, t, i)

\* num_threads (lines 168-177)
NumThreads(hw, n, vb) ==
  IF vb THEN 1 ELSE IF hw > n THEN n ELSE hw

\* --------------------------------------------------------------- filterGrasps
InitF ==
  /\ pc = "idle"
  /\ call = NoCall
  /\ filtered_grasps = <<>>
  /\ verbose = FALSE
  /\ result = FALSE
  /\ ret = "none"
  /\ kin_solvers = <<>>
  /\ kin_capacity = FALSE
  /\ link_transform = "uninit_a"
  /\ num_threads = 0
  /\ created = 0
  /\ grasps_id_end = 0
  /\ lock = Free
  /\ th = [w \in Threads |-> NoThread]
  /\ runs = 0
  /\ instCalls = 0
  /\ instNull = FALSE
  /\ noLink = FALSE
  /\ invalidRead = FALSE
  /\ started = 0
  /\ firstCount = -1
  /\ firstThreads = -1
  /\ ikLog = NoLog
  /\ firstRun = NoRun

InitC ==
  /\ cpc = "off"
  /\ c_grasps = <<>>
  /\ c_i = 0
  /\ max_quality = 0
  /\ chosen = [grasp |-> StaleGrasp, sin_arg |-> 0]
  /\ c_ret = "none"

InitP ==
  /\ ppc = "off"
  /\ p_n = 0
  /\ p_threads = 0
  /\ p_i = 0
  /\ p_end = 0
  /\ p_ranges = <<>>

\* a planning scene pointer that holds no scene yet
NoScene == -1
NoState == [arm |-> ZeroCfg, other |-> 0]

InitB ==
  /\ bpc = "off"
  /\ possible_grasps = <<>>
  /\ original_possible_grasps = <<>>
  /\ robot_state = NoState
  /\ b_verbose = FALSE
  /\ b_ret = "none"
  /\ h_list = "possible"
  /\ h_verbose = FALSE
  /\ grasp_it = 0
  /\ cloned_scene = NoScene
  /\ robot_state_ = NoState
  /\ planning_scene = 0
  /\ b_input = <<>>
  /\ b_passes = 0
  /\ b_clones = 0
  /\ b_first_scene = NoScene
  /\ b_first_size = -1
  /\ h_input = <<>>
  /\ b_tests = <<>>
  /\ b_all_tests = <<>>
  /\ b_invalid = FALSE
  /\ b_again = FALSE

\* generateGrasps is not running
NoPose == [point_a |-> <<0, 0, 0>>, point_b |-> <<0, 0, 0>>]

InitG ==
  /\ gpc = "off"
  /\ cuboid = <<2, 2, 2>>
  /\ grasp_pose = NoPose
  /\ g_possible_grasps = <<>>

\* (variant: without the check for more than one end effector)
InputRejectedNoMultiple(n, ee) == n = 0 \/ ee = 0

\* the error checks of filterGrasps (lines 112, 130, 135)
InputRejected(n, ee) == n = 0 \/ ee = 0 \/ ee > 1

\* (variant: the caller's vector is left as it was passed)
NotCleared(list) == list

\* the caller's vector after filtered_grasps.clear() (line 144)
Cleared(list) == <<>>

\* filterGrasps from its entry to the first call of the helper (lines 105-148)
FilterGrasps(n, ee, fp, hw, frame, passed) ==
  /\ pc = "idle"
  /\ call' = [n |-> n, ee |-> ee, filter_pregrasp |-> fp, hw |-> hw, frame |-> frame]
  /\ runs' = 0 /\ instCalls' = 0 /\ instNull' = FALSE /\ noLink' = FALSE
  /\ invalidRead' = FALSE
  /\ started' = 0 /\ firstCount' = -1 /\ firstThreads' = -1
  /\ verbose' = FALSE
  /\ IF InputRejected(n, ee)
       THEN /\ filtered_grasps' = passed
            /\ ret' = "false"
            /\ pc' = "done"
       ELSE /\ filtered_grasps' = Cleared(passed)
            /\ ret' = "none"
            /\ pc' = "helper"
  /\ firstRun' = NoRun
  /\ UNCHANGED <<result, kin_solvers, kin_capacity, link_transform, num_threads, created,
                 grasps_id_end, lock, th, ikLog>>

\* the handle arm_jmg->getSolverInstance() returns to the j-th push_back of
\* line 190: the code takes whatever the group hands out, which is the
\* group's one solver instance every time (shared) or an instance per call
SolverHandle(j, shared) == IF shared THEN 1 ELSE j

\* kin_solvers_[name] after the loading loop (lines 184-198) over t threads when
\* getSolverInstance() first returns null at index k (k = t: it never does)
LoadedSolvers(t, k, shared) ==
  [j \in 1..(IF k < t THEN k + 1 ELSE t) |->
     IF j = k + 1 THEN NullSolver ELSE SolverHandle(j, shared)]

\* filterGraspsHelper from its entry to the thread creation loop (lines 160-230).
\*   k      index at which getSolverInstance() returns null (num_threads: nowhere)
\*   frame  what sameFrame / getLinkModel find for the ik_frame read at line 203
\*   lt     the indeterminate value of link_transform
\*   crash  whether an invalid read at line 203 ends the process
\*   shared whether getSolverInstance() hands out one instance for all calls
FilterGraspsHelper(k, frame, lt, crash, shared) ==
  /\ pc = "helper"
  /\ LET t == NumThreads(call.hw, call.n, verbose)
         reload == Len(kin_solvers) # t
         solvers == IF reload THEN LoadedSolvers(t, k, shared) ELSE kin_solvers
         failed == reload /\ k < t
         empty == Len(solvers) = 0
         null == ~empty /\ solvers[1] = NullSolver
     IN
     /\ k \in 0..t
     /\ ~reload => k = t
     /\ (~reload \/ t < 2) => ~shared
     \* line 203 reads element 0.  A null handle there: the virtual call
     \* getBaseFrame() through it ends the process.  An empty vector: the read
     \* is out of range; without storage it faults, with storage left by an
     \* earlier clear() it finds a destroyed handle, and the process crashes
     \* or goes on with whatever ik_frame that yields.
     /\ (failed \/ (~empty /\ ~null)) => (~crash /\ frame = call.frame)
     /\ (~failed /\ null) => (crash /\ frame = call.frame)
     /\ (~failed /\ empty /\ ~kin_capacity) => (crash /\ frame = call.frame)
     /\ (failed \/ crash \/ frame # "same") => lt = "uninit_a"
     /\ num_threads' = t
     /\ kin_solvers' = solvers
     /\ kin_capacity' = (kin_capacity \/ Len(solvers) > 0)
     /\ runs' = runs + 1
     /\ instCalls' = instCalls + (IF reload THEN Len(solvers) ELSE 0)
     /\ instNull' = (instNull \/ failed)
     /\ invalidRead' = (invalidRead \/ (~failed /\ (empty \/ null)))
     /\ firstThreads' = IF runs = 0 THEN t ELSE firstThreads
     /\ created' = 0
     /\ grasps_id_end' = 0
     /\ lock' = Free
     /\ th' = [w \in Threads |-> NoThread]
     /\ ikLog' = NoLog
     /\ IF failed
          THEN \* line 196: return false
               /\ result' = FALSE /\ pc' = "check"
               /\ UNCHANGED <<link_transform, noLink>>
          ELSE IF crash
          THEN /\ pc' = "crashed"
               /\ UNCHANGED <<result, link_transform, noLink>>
          ELSE IF frame = "nolink"
          THEN \* line 211: return false
               /\ result' = FALSE /\ pc' = "check" /\ noLink' = TRUE
               /\ UNCHANGED link_transform
          ELSE /\ pc' = "spawn"
               /\ link_transform' = IF frame = "link" THEN LinkInverse ELSE lt
               /\ UNCHANGED <<result, noLink>>
  /\ UNCHANGED <<call, filtered_grasps, verbose, ret, started, firstCount, firstRun>>

\* the next iteration of the thread's loop (lines 274-288), or its end
NextGrasp(t) ==
  IF t.i + 1 < t.end
    THEN [t EXCEPT !.i = t.i + 1, !.pc = "grasp_ik",
                   !.grasp_ik_solution = EmptyCfg, !.pregrasp_ik_solution = EmptyCfg]
    ELSE [NoThread EXCEPT !.pc = "done", !.start = t.start, !.end = t.end, !.i = t.end]

\* a thread from its start to its first solver call (lines 264-308)
NewThread(s, e, solver) ==
  IF s < e
    THEN [NoThread EXCEPT !.pc = "grasp_ik", !.start = s, !.end = e, !.i = s,
                          !.kin_solver = solver]
    ELSE [NoThread EXCEPT !.pc = "done", !.start = s, !.end = e, !.i = s]

\* one iteration of the thread creation loop (lines 232-245)
CreateThread ==
  /\ pc = "spawn"
  /\ created < num_threads
  /\ LET e == GraspsIdEnd(call.n, num_threads, created) IN
     /\ grasps_id_end' = e
     /\ th' = [th EXCEPT ![created] =
                  NewThread(grasps_id_end, e, kin_solvers[created + 1])]
  /\ created' = created + 1
  /\ started' = started + 1
  /\ UNCHANGED <<pc, call, filtered_grasps, verbose, result, ret, kin_solvers, kin_capacity,
                 link_transform, num_threads, lock, runs, instCalls, instNull,
                 noLink, invalidRead, firstCount, firstThreads, ikLog, firstRun>>

\* (variant: the seed stays at its initial zeros)
SeedNeverUpdated(seed, code, solution) == seed

\* (variant: the seed is the first solution the thread found)
SeedOfFirstSuccess(seed, code, solution) ==
  IF code = Success /\ seed = ZeroCfg THEN solution ELSE seed

\* (variant: a failed call puts the seed back to zeros)
SeedResetOnFailure(seed, code, solution) ==
  IF code = Success THEN solution ELSE ZeroCfg

\* ik_seed_state after a grasp searchPositionIK call (lines 314-319)
SeedAfter(seed, code, solution) == IF code = Success THEN solution ELSE seed

\* the thread's grasp searchPositionIK returns (lines 310-320, 373-382)
GraspIK(w, code) ==
  /\ pc = "spawn"
  /\ th[w].pc = "grasp_ik"
  /\ IF th[w].kin_solver = NullSolver
       THEN \* a call through a null handle
            /\ pc' = "crashed"
            /\ UNCHANGED <<th, ikLog>>
       ELSE /\ ikLog' = [ikLog EXCEPT ![th[w].i].grasp = code,
                                      ![th[w].i].seed = th[w].seed]
            /\ th' = [th EXCEPT ![w] =
                 LET t == [@ EXCEPT !.seed = SeedAfter(th[w].seed, code,
                                                       GraspCfg(th[w].i))]
                 IN IF code = Success
                      THEN [t EXCEPT !.grasp_ik_solution = GraspCfg(th[w].i),
                                     !.pc = IF call.filter_pregrasp THEN "pregrasp_ik"
                                                                    ELSE "lock"]
                      ELSE NextGrasp(t)]
            /\ UNCHANGED pc
  /\ UNCHANGED <<call, filtered_grasps, verbose, result, ret, kin_solvers, kin_capacity,
                 link_transform, num_threads, created, grasps_id_end, lock, runs,
                 instCalls, instNull, noLink, invalidRead, started, firstCount,
                 firstThreads, firstRun>>

\* (variant: without the last of the three branches)
PregraspRejectedTwoCodes(code) ==
  \/ code = NoIkSolution
  \/ code = TimedOut

\* whether the pre-grasp error code takes one of the three "continue"s
\* (lines 338-353)
PregraspRejected(code) ==
  \/ code = NoIkSolution
  \/ code = TimedOut
  \/ code # Success

\* the thread's pre-grasp searchPositionIK returns (lines 335-358)
PregraspIK(w, code) ==
  /\ pc = "spawn"
  /\ th[w].pc = "pregrasp_ik"
  /\ ikLog' = [ikLog EXCEPT ![th[w].i].pregrasp = code]
  /\ th' = [th EXCEPT ![w] =
       IF PregraspRejected(code)
         THEN NextGrasp(@)
         ELSE [@ EXCEPT !.pregrasp_ik_solution = PregraspCfg(th[w].i), !.pc = "lock"]]
  /\ UNCHANGED <<pc, call, filtered_grasps, verbose, result, ret, kin_solvers, kin_capacity,
                 link_transform, num_threads, created, grasps_id_end, lock, runs,
                 instCalls, instNull, noLink, invalidRead, started, firstCount,
                 firstThreads, firstRun>>

\* (variant: push_back without the scoped_lock)
LockNotNeeded == TRUE

\* boost::mutex::scoped_lock can take the mutex (line 367)
LockAvailable == lock = Free

\* the thread builds its GraspSolution and takes the mutex (lines 360-367)
Lock(w) ==
  /\ pc = "spawn"
  /\ th[w].pc = "lock"
  /\ LockAvailable
  /\ lock' = w
  /\ th' = [th EXCEPT ![w].pc = "push_back"]
  /\ UNCHANGED <<pc, call, filtered_grasps, verbose, result, ret, kin_solvers, kin_capacity,
                 link_transform, num_threads, created, grasps_id_end, runs,
                 instCalls, instNull, noLink, invalidRead, started, firstCount,
                 firstThreads, ikLog, firstRun>>

\* (variant: the two configurations stored in each other's field)
GraspSolutionSwapped(t) ==
  [grasp |-> t.i, grasp_ik_solution_ |-> t.pregrasp_ik_solution,
   pregrasp_ik_solution_ |-> t.grasp_ik_solution]

\* the GraspSolution of lines 360-363
GraspSolutionOf(t) ==
  [grasp |-> t.i, grasp_ik_solution_ |-> t.grasp_ik_solution,
   pregrasp_ik_solution_ |-> t.pregrasp_ik_solution]

\* push_back and the end of the scoped_lock's block (lines 368-369)
PushBack(w) ==
  /\ pc = "spawn"
  /\ th[w].pc = "push_back"
  /\ filtered_grasps' = Append(filtered_grasps, GraspSolutionOf(th[w]))
  /\ lock' = Free
  /\ th' = [th EXCEPT ![w] = NextGrasp(@)]
  /\ UNCHANGED <<pc, call, verbose, result, ret, kin_solvers, kin_capacity, link_transform,
                 num_threads, created, grasps_id_end, runs, instCalls, instNull,
                 noLink, invalidRead, started, firstCount, firstThreads, ikLog, firstRun>>

\* (variant: the helper goes on as soon as one thread has finished)
JoinedAny == \E w \in Threads : th[w].pc = "done"

\* bgroup.join_all() can return (line 248)
AllJoined == \A w \in Threads : th[w].pc \in {"none", "done"}

\* join_all and the helper's return (lines 247-261)
JoinAll ==
  /\ pc = "spawn"
  /\ created = num_threads
  /\ AllJoined
  /\ result' = TRUE
  /\ pc' = "check"
  /\ UNCHANGED <<call, filtered_grasps, verbose, ret, kin_solvers, kin_capacity, link_transform,
                 num_threads, created, grasps_id_end, lock, th, runs, instCalls,
                 instNull, noLink, invalidRead, started, firstCount, firstThreads,
                 ikLog, firstRun>>

\* (variant: a re-run only after a failed helper)
RerunOnFailureOnly(res, size) == ~res

\* the condition of the re-run (line 150)
RerunNeeded(res, size) == ~res \/ size = 0

\* (variant: failure when no grasp was found)
FilterGraspsResultNonEmpty(res, size) == res /\ size > 0

\* what filterGrasps returns after the helper calls (line 156)
FilterGraspsResult(res, size) == res

\* filterGrasps after a helper call returned (lines 150-156)
AfterHelperStep ==
  /\ pc = "check"
  /\ firstCount' = IF runs = 1 THEN Len(filtered_grasps) ELSE firstCount
  /\ IF ~verbose /\ RerunNeeded(result, Len(filtered_grasps))
       THEN /\ verbose' = TRUE
            /\ pc' = "helper"
            /\ UNCHANGED ret
       ELSE /\ ret' = IF FilterGraspsResult(result, Len(filtered_grasps))
                         THEN "true" ELSE "false"
            /\ pc' = "done"
            /\ UNCHANGED verbose
  /\ UNCHANGED <<call, filtered_grasps, result, kin_solvers, kin_capacity, link_transform,
                 num_threads, created, grasps_id_end, lock, th, runs, instCalls,
                 instNull, noLink, invalidRead, started, firstThreads, ikLog>>

AfterHelper == AfterHelperStep /\ UNCHANGED firstRun

\* the same step where the first run's calls are kept for comparison
AfterHelperObserved ==
  /\ AfterHelperStep
  /\ firstRun' = IF runs = 1
                   THEN [log |-> ikLog, link_transform |-> link_transform]
                   ELSE firstRun

\* the caller takes the result; the GraspFilter object lives on
Return ==
  /\ pc = "done"
  /\ pc' = "idle"
  /\ call' = NoCall
  /\ filtered_grasps' = <<>>
  /\ verbose' = FALSE /\ result' = FALSE /\ ret' = "none"
  /\ link_transform' = "uninit_a"
  /\ num_threads' = 0 /\ created' = 0 /\ grasps_id_end' = 0
  /\ lock' = Free
  /\ th' = [w \in Threads |-> NoThread]
  /\ runs' = 0 /\ instCalls' = 0 /\ instNull' = FALSE /\ noLink' = FALSE
  /\ invalidRead' = FALSE
  /\ started' = 0 /\ firstCount' = -1 /\ firstThreads' = -1
  /\ ikLog' = NoLog
  /\ firstRun' = NoRun
  /\ UNCHANGED <<kin_solvers, kin_capacity>>

\* ---------------------------------------------------- filterGraspsInCollision
\* A robot state is the configuration of the arm group and the value of the
\* joints outside it.  A planning scene is given by how far its obstacle
\* reaches: scene s is in collision with every robot state whose arm
\* configuration plus the value of its other joints is at most s, so scene 0
\* collides with nothing and scene MaxSolutions + 1 with everything.
OtherJoints == {0, 1}
Scenes == 0..(MaxSolutions + 1)
RobotStates == [arm : {ZeroCfg}, other : OtherJoints]

\* cloned_scene->isStateColliding(*robot_state_, group) (line 458)
IsStateColliding(scene, rs) == rs.arm + rs.other <= scene

\* the solution filterGraspThread builds for candidate c without pre-grasp
SolutionFor(c) ==
  [grasp |-> c, grasp_ik_solution_ |-> GraspCfg(c), pregrasp_ik_solution_ |-> EmptyCfg]

\* the lists filterGrasps can hand back: solutions of distinct candidates in
\* the order the threads appended them
SolutionLists ==
  {[j \in 1..Len(q) |-> SolutionFor(q[j])] :
     q \in {r \in UNION {[1..len -> 0..(MaxSolutions - 1)] : len \in 0..MaxSolutions} :
              \A a, b \in 1..Len(r) : a # b => r[a] # r[b]}}

InitCollision ==
  /\ bpc = "idle"
  /\ possible_grasps = <<>>
  /\ original_possible_grasps = <<>>
  /\ robot_state = NoState
  /\ b_verbose = FALSE
  /\ b_ret = "none"
  /\ h_list = "possible"
  /\ h_verbose = FALSE
  /\ grasp_it = 0
  /\ cloned_scene = NoScene
  /\ robot_state_ \in RobotStates        \* the constructor's copy (line 51)
  /\ planning_scene \in Scenes
  /\ b_input = <<>>
  /\ b_passes = 0
  /\ b_clones = 0
  /\ b_first_scene = NoScene
  /\ b_first_size = -1
  /\ h_input = <<>>
  /\ b_tests = <<>>
  /\ b_all_tests = <<>>
  /\ b_invalid = FALSE
  /\ b_again = FALSE

\* filterGraspsInCollision from its entry to the first call of the helper
\* (lines 388-405)
EnterCollision(list, rs, vb, again) ==
  /\ possible_grasps' = list
  /\ robot_state' = rs
  /\ b_verbose' = vb
  /\ b_input' = list
  /\ b_again' = again
  /\ b_passes' = 0 /\ b_clones' = 0 /\ b_first_scene' = NoScene /\ b_first_size' = -1
  /\ h_input' = <<>> /\ b_tests' = <<>> /\ b_all_tests' = <<>> /\ b_invalid' = FALSE
  /\ grasp_it' = 0
  /\ cloned_scene' = NoScene
  /\ h_list' = "possible"
  /\ h_verbose' = vb
  /\ IF Len(list) = 0
       THEN \* line 398: return false
            /\ original_possible_grasps' = <<>>
            /\ b_ret' = "false"
            /\ bpc' = "done"
       ELSE /\ original_possible_grasps' = list
            /\ b_ret' = "none"
            /\ bpc' = "helper"
  /\ UNCHANGED <<robot_state_, planning_scene>>

FilterGraspsInCollision(list, rs, vb) ==
  /\ bpc = "idle"
  /\ EnterCollision(list, rs, vb, FALSE)

\* the caller gives the list a successful call handed back to
\* filterGraspsInCollision again, with the same robot state, while the scene
\* is the one that call cloned
FilterGraspsInCollisionAgain(vb) ==
  /\ bpc = "done"
  /\ b_ret = "true"
  /\ Len(possible_grasps) > 0
  /\ planning_scene = cloned_scene
  /\ EnterCollision(possible_grasps, robot_state, vb, TRUE)

\* the vector the helper's possible_grasps parameter refers to
HelperList ==
  IF h_list = "possible" THEN possible_grasps ELSE original_possible_grasps

\* (variant: robot_state_ is used as the last pass left it)
ScratchStateKept(member, given) == member

\* *robot_state_ = *robot_state (line 439)
ScratchState(member, given) == given

\* the helper from its entry to its loop (lines 438-452)
CollisionHelperEntry ==
  /\ bpc = "helper"
  /\ robot_state_' = ScratchState(robot_state_, robot_state)
  /\ cloned_scene' = planning_scene
  /\ grasp_it' = 0
  /\ b_passes' = b_passes + 1
  /\ b_clones' = b_clones + 1
  /\ b_first_scene' = IF b_clones = 0 THEN planning_scene ELSE b_first_scene
  /\ h_input' = HelperList
  /\ b_tests' = <<>>
  /\ bpc' = "loop"
  /\ UNCHANGED <<possible_grasps, original_possible_grasps, robot_state, b_verbose,
                 b_ret, h_list, h_verbose, planning_scene, b_input, b_first_size,
                 b_all_tests, b_invalid, b_again>>

\* (variant: the element after the erased one goes too)
ErasedWithNext(list, i) == SubSeq(list, 1, i) \o SubSeq(list, i + 3, Len(list))

\* the vector after erase() of the element at index i from begin() (line 471)
Erased(list, i) == SubSeq(list, 1, i) \o SubSeq(list, i + 2, Len(list))

\* (variant: the iterator is also advanced after an erase)
IteratorAdvancedAfterErase(i) == i + 1

\* where a plain-pointer iterator stands after erase() of its element and the
\* "continue" of line 472: at the same index, now the next element
IteratorAfterErase(i) == i

\* possible_grasps.erase(grasp_it) and "continue" (lines 471-472).  The
\* iterator is used afterwards without having been assigned erase()'s result:
\* with an iterator that is a plain pointer it now stands at the element that
\* followed the erased one, with a checking iterator the process stops (crash).
EraseGrasp(crash) ==
  /\ IF h_list = "possible"
       THEN /\ possible_grasps' = Erased(possible_grasps, grasp_it)
            /\ UNCHANGED original_possible_grasps
       ELSE /\ original_possible_grasps' = Erased(original_possible_grasps, grasp_it)
            /\ UNCHANGED possible_grasps
  /\ b_invalid' = TRUE
  /\ bpc' = IF crash THEN "crashed" ELSE "loop"
  /\ grasp_it' = IteratorAfterErase(grasp_it)

\* one iteration of the helper's loop (lines 451-497) up to its end or, for a
\* colliding solution of a verbose pass, up to the sleep of line 468
CollisionTest(crash) ==
  /\ bpc = "loop"
  /\ grasp_it < Len(HelperList)
  /\ LET sol == HelperList[grasp_it + 1]
         rs == [robot_state_ EXCEPT !.arm = sol.grasp_ik_solution_]
         hit == IsStateColliding(cloned_scene, rs)
         test == [grasp |-> sol.grasp, arm |-> rs.arm, other |-> rs.other,
                  scene |-> cloned_scene, colliding |-> hit]
     IN
     /\ robot_state_' = rs
     /\ b_tests' = Append(b_tests, test)
     /\ b_all_tests' = Append(b_all_tests, test)
     /\ IF hit /\ h_verbose
          THEN \* publishRobotState, publishContactPoints, ros::Duration(4.0).sleep()
               /\ ~crash
               /\ bpc' = "sleep"
               /\ UNCHANGED <<possible_grasps, original_possible_grasps, b_invalid,
                              grasp_it>>
          ELSE IF hit
          THEN EraseGrasp(crash)
          ELSE /\ ~crash
               /\ grasp_it' = grasp_it + 1
               /\ UNCHANGED <<possible_grasps, original_possible_grasps, b_invalid, bpc>>
  /\ UNCHANGED <<robot_state, b_verbose, b_ret, h_list, h_verbose, cloned_scene,
                 planning_scene, b_input, b_passes, b_clones, b_first_scene,
                 b_first_size, h_input, b_again>>

\* the sleep of line 468 is over: the colliding solution is erased
EraseAfterSleep(crash) ==
  /\ bpc = "sleep"
  /\ EraseGrasp(crash)
  /\ UNCHANGED <<robot_state, b_verbose, b_ret, h_list, h_verbose, cloned_scene,
                 robot_state_, planning_scene, b_input, b_passes, b_clones,
                 b_first_scene, b_first_size, h_input, b_tests, b_all_tests, b_again>>

\* (variant: the re-run also when the call was verbose)
CollisionRerunAlways(size, vb) == size = 0

\* the condition of the re-run (line 414)
CollisionRerunNeeded(size, vb) == size = 0 /\ ~vb

\* (variant: what the re-run kept is handed to the caller)
RerunCopiedBack(possible, original) == original

\* the caller's vector after the re-run, which was given the private copy
\* original_possible_grasps (lines 401, 422): nothing is assigned back
CallerListAfterRerun(possible, original) == possible

\* the helper's loop ends, it returns true (lines 499-506), and
\* filterGraspsInCollision goes on after the call (lines 405-429)
CollisionHelperReturn ==
  /\ bpc = "loop"
  /\ grasp_it = Len(HelperList)
  /\ IF h_list = "possible"
       THEN /\ b_first_size' = Len(possible_grasps)
            /\ IF CollisionRerunNeeded(Len(possible_grasps), b_verbose)
                 THEN /\ h_list' = "original"
                      /\ h_verbose' = TRUE
                      /\ bpc' = "helper"
                      /\ UNCHANGED b_ret
                 ELSE /\ b_ret' = "true"
                      /\ bpc' = "done"
                      /\ UNCHANGED <<h_list, h_verbose>>
            /\ UNCHANGED possible_grasps
       ELSE /\ b_ret' = "true"
            /\ bpc' = "done"
            /\ possible_grasps' =
                 CallerListAfterRerun(possible_grasps, original_possible_grasps)
            /\ UNCHANGED <<h_list, h_verbose, b_first_size>>
  /\ UNCHANGED <<original_possible_grasps, robot_state, b_verbose,
                 grasp_it, cloned_scene, robot_state_, planning_scene, b_input,
                 b_passes, b_clones, b_first_scene, h_input, b_tests, b_all_tests,
                 b_invalid, b_again>>

\* the caller takes the result; the GraspFilter object and the scene live on
CollisionReturn ==
  /\ bpc = "done"
  /\ bpc' = "idle"
  /\ possible_grasps' = <<>>
  /\ original_possible_grasps' = <<>>
  /\ robot_state' = NoState
  /\ b_verbose' = FALSE
  /\ b_ret' = "none"
  /\ h_list' = "possible"
  /\ h_verbose' = FALSE
  /\ grasp_it' = 0
  /\ cloned_scene' = NoScene
  /\ b_input' = <<>>
  /\ b_passes' = 0 /\ b_clones' = 0 /\ b_first_scene' = NoScene /\ b_first_size' = -1
  /\ h_input' = <<>> /\ b_tests' = <<>> /\ b_all_tests' = <<>>
  /\ b_invalid' = FALSE /\ b_again' = FALSE
  /\ UNCHANGED <<robot_state_, planning_scene>>

\* another thread of the process updates the monitored planning scene; the
\* helper holds the read lock only while it clones (lines 443-446)
SceneUpdate(s) ==
  /\ bpc \in {"idle", "helper", "loop", "sleep", "done"}
  /\ s # planning_scene
  /\ planning_scene' = s
  /\ b_again' = FALSE
  /\ UNCHANGED <<bpc, possible_grasps, original_possible_grasps, robot_state,
                 b_verbose, b_ret, h_list, h_verbose, grasp_it, cloned_scene,
                 robot_state_, b_input, b_passes, b_clones, b_first_scene,
                 b_first_size, h_input, b_tests, b_all_tests, b_invalid>>

NextCollision ==
  \/ \E list \in SolutionLists, rs \in RobotStates, vb \in BOOLEAN :
       FilterGraspsInCollision(list, rs, vb) /\ UNCHANGED <<fvars, cvars, pvars, gvars>>
  \/ \E vb \in BOOLEAN :
       FilterGraspsInCollisionAgain(vb) /\ UNCHANGED <<fvars, cvars, pvars, gvars>>
  \/ CollisionHelperEntry /\ UNCHANGED <<fvars, cvars, pvars, gvars>>
  \/ \E crash \in BOOLEAN : CollisionTest(crash) /\ UNCHANGED <<fvars, cvars, pvars, gvars>>
  \/ \E crash \in BOOLEAN : EraseAfterSleep(crash) /\ UNCHANGED <<fvars, cvars, pvars, gvars>>
  \/ CollisionHelperReturn /\ UNCHANGED <<fvars, cvars, pvars, gvars>>
  \/ CollisionReturn /\ UNCHANGED <<fvars, cvars, pvars, gvars>>
  \/ \E s \in Scenes : SceneUpdate(s) /\ UNCHANGED <<fvars, cvars, pvars, gvars>>

InitCollisionSpec == InitF /\ InitC /\ InitP /\ InitCollision /\ InitG

SpecCollision == InitCollisionSpec /\ [][NextCollision]_vars

\* ------------------------------------------------------------ chooseBestGrasp
\* A solution is given by its index in the list and by the argument of asin at
\* line 87, -2*(x*z - w*y) of its grasp pose orientation, in tenths.  SinArgs
\* holds the whole range [-1, 1] in steps and one value outside it, which a
\* quaternion that is not of unit length produces.
SinArgs == {-10, -9, -8, 0, 7, 10, 11}

\* asin of a value outside [-1, 1] is not a number
NaN == 99999

\* asin(s/10) in thousandths of a radian (line 87)
Asin(s) ==
  CASE s = -10 -> -1571 [] s = -9 -> -1120 [] s = -8 -> -927 [] s = -7 -> -775
    [] s = -6 -> -644   [] s = -5 -> -524  [] s = -4 -> -412 [] s = -3 -> -305
    [] s = -2 -> -201   [] s = -1 -> -100  [] s = 0 -> 0     [] s = 1 -> 100
    [] s = 2 -> 201     [] s = 3 -> 305    [] s = 4 -> 412   [] s = 5 -> 524
    [] s = 6 -> 644     [] s = 7 -> 775    [] s = 8 -> 927   [] s = 9 -> 1120
    [] s = 10 -> 1571   [] OTHER -> NaN

\* a > b on doubles: false when either side is not a number
Greater(a, b) == a # NaN /\ b # NaN /\ a > b

\* double max_quality = -1, in thousandths (line 71)
InitialMaxQuality == -1000

\* what the caller's `chosen` holds before the call
CallerChosen == [grasp |-> StaleGrasp, sin_arg |-> 0]

ChooseLists == UNION {[1..len -> SinArgs] : len \in 0..MaxChoose}

InitChoose ==
  /\ cpc = "entry"
  /\ c_grasps \in ChooseLists
  /\ c_i = 0
  /\ max_quality = InitialMaxQuality
  /\ chosen = CallerChosen
  /\ c_ret = "none"

\* (variant: without the check for an empty list)
NeverEmpty(list) == FALSE

\* filtered_grasps.empty() (line 64)
Empty(list) == Len(list) = 0

\* the empty check and the initialisation (lines 64-72)
ChooseEntry ==
  /\ cpc = "entry"
  /\ IF Empty(c_grasps)
       THEN cpc' = "done" /\ c_ret' = "false"
       ELSE cpc' = "loop" /\ c_ret' = "none"
  /\ max_quality' = InitialMaxQuality
  /\ c_i' = 0
  /\ UNCHANGED <<c_grasps, chosen>>

\* the test of line 91
Better(yall, best) == Greater(yall, best)

\* one iteration of the loop (lines 72-98); c_grasps[c_i + 1] is filtered_grasps[i]
ChooseStep ==
  /\ cpc = "loop"
  /\ c_i < Len(c_grasps)
  /\ LET yall == Asin(c_grasps[c_i + 1]) IN
       IF Better(yall, max_quality)
         THEN /\ max_quality' = yall
              /\ chosen' = [grasp |-> c_i, sin_arg |-> c_grasps[c_i + 1]]
         ELSE UNCHANGED <<max_quality, chosen>>
  /\ c_i' = c_i + 1
  /\ UNCHANGED <<cpc, c_grasps, c_ret>>

\* the loop ends and the function returns true (lines 100-102)
ChooseReturn ==
  /\ cpc = "loop"
  /\ c_i = Len(c_grasps)
  /\ cpc' = "done"
  /\ c_ret' = "true"
  /\ UNCHANGED <<c_grasps, c_i, max_quality, chosen>>

\* the loop of lines 72-98 from index i on, over a list of solutions given by
\* their name and their asin argument: what `chosen` holds when it ends
RECURSIVE ChooseLoop(_, _, _, _)
ChooseLoop(list, i, best, pick) ==
  IF i = Len(list)
    THEN pick
    ELSE LET yall == Asin(list[i + 1].sin_arg) IN
         IF Better(yall, best)
           THEN ChooseLoop(list, i + 1, yall, list[i + 1])
           ELSE ChooseLoop(list, i + 1, best, pick)

\* `chosen` after chooseBestGrasp(list, chosen) (lines 60-103)
ChooseBestGrasp(list, caller) ==
  IF Empty(list) THEN caller ELSE ChooseLoop(list, 0, InitialMaxQuality, caller)

NextChoose ==
  \/ ChooseEntry /\ UNCHANGED <<fvars, pvars, bvars, gvars>>
  \/ ChooseStep /\ UNCHANGED <<fvars, pvars, bvars, gvars>>
  \/ ChooseReturn /\ UNCHANGED <<fvars, pvars, bvars, gvars>>

InitChooseSpec == InitF /\ InitChoose /\ InitP /\ InitB /\ InitG

SpecChoose == InitChooseSpec /\ [][NextChoose]_vars

\* ------------------------------------------------- the thread creation loop alone
InitPartition ==
  /\ ppc = "loop"
  /\ p_n \in 1..MaxPartGrasps
  /\ \E hw \in 1..MaxPartGrasps : p_threads = NumThreads(hw, p_n, FALSE)
  /\ p_i = 0
  /\ p_end = 0
  /\ p_ranges = <<>>

\* one iteration of the loop of lines 232-245, as in CreateThread
PartitionStep ==
  /\ ppc = "loop"
  /\ p_i < p_threads
  /\ LET e == GraspsIdEnd(p_n, p_threads, p_i) IN
     /\ p_end' = e
     /\ p_ranges' = Append(p_ranges, <<p_end, e>>)
  /\ p_i' = p_i + 1
  /\ UNCHANGED <<ppc, p_n, p_threads>>

\* the loop ends
PartitionDone ==
  /\ ppc = "loop"
  /\ p_i = p_threads
  /\ ppc' = "done"
  /\ UNCHANGED <<p_n, p_threads, p_i, p_end, p_ranges>>

NextPartition ==
  \/ PartitionStep /\ UNCHANGED <<fvars, cvars, bvars, gvars>>
  \/ PartitionDone /\ UNCHANGED <<fvars, cvars, bvars, gvars>>

InitPartitionSpec == InitF /\ InitC /\ InitPartition /\ InitB /\ InitG

SpecPartition == InitPartitionSpec /\ [][NextPartition]_vars

\* ------------------------------------------------------- filterGrasps, complete
Idle == UNCHANGED <<cvars, pvars, bvars, gvars>>

Init == InitF /\ InitC /\ InitP /\ InitB /\ InitG

Next ==
  \/ \E n \in 0..MaxGrasps, ee \in 0..MaxEE, fp \in BOOLEAN, hw \in 0..MaxHW,
        frame \in Frames, passed \in StaleLists :
       FilterGrasps(n, ee, fp, hw, frame, passed) /\ Idle
  \/ \E k \in 0..MaxHW, frame \in Frames, lt \in UninitTransforms,
        crash \in BOOLEAN, shared \in BOOLEAN :
       FilterGraspsHelper(k, frame, lt, crash, shared) /\ Idle
  \/ CreateThread /\ Idle
  \/ \E w \in Threads, code \in ErrorCodes : GraspIK(w, code) /\ Idle
  \/ \E w \in Threads, code \in ErrorCodes : PregraspIK(w, code) /\ Idle
  \/ \E w \in Threads : Lock(w) /\ Idle
  \/ \E w \in Threads : PushBack(w) /\ Idle
  \/ JoinAll /\ Idle
  \/ AfterHelper /\ Idle
  \/ Return /\ Idle

Spec == Init /\ [][Next]_vars

\* ------------------------------------------------ GraspGenerator::generateGrasps
\* grasp_generator.h declares the generator; its definitions are not in the
\* sources at hand, so the intersection test is taken from its description:
\* the approach line is parametrised from the pre-grasp offset point (t = 0)
\* to the grasp point (t = 1), for each of the six faces the parameter t of
\* the crossing with the face's plane and the in-plane coordinates (u, v) of
\* the crossing are solved for, and the pose is rejected on the first face
\* with t in [0, 1] and (u, v) within the face's extents.
\* Points are in the cuboid's frame, the cuboid's centre at the origin, so
\* the faces are at plus and minus half an extent.
Coords == (-MaxCoord)..MaxCoord
Points == Coords \X Coords \X Coords
\* depth, width, height of the cuboids generateGrasps is given
Cuboids == {<<2, 2, 2>>, <<3, 2, 1>>}
GraspPoses == [point_a : Points, point_b : Points]

Abs(x) == IF x < 0 THEN -x ELSE x

\* intersectionHelper(t, u1, v1, u2, v2, a, b, u, v) for t = num / den: whether
\* t is in [0, 1] and u = u1 + t (u2 - u1), v = v1 + t (v2 - v1) lie within
\* [-a/2, a/2] and [-b/2, b/2].  den = 0: the line is parallel to the plane
\* and t is no number in [0, 1].
IntersectionHelper(num, den, u1, v1, u2, v2, a, b) ==
  /\ den # 0
  /\ IF den > 0 THEN 0 <= num /\ num <= den ELSE den <= num /\ num <= 0
  /\ 2 * Abs(u1 * den + num * (u2 - u1)) <= a * Abs(den)
  /\ 2 * Abs(v1 * den + num * (v2 - v1)) <= b * Abs(den)

\* (variant: only the faces on the positive side of each axis are tested)
GraspIntersectionUpperFaces(depth, width, height, point_a, point_b) ==
  LET ax == point_a[1]  ay == point_a[2]  az == point_a[3]
      bx == point_b[1]  by == point_b[2]  bz == point_b[3]
  IN
  \/ IntersectionHelper(height - 2 * az, 2 * (bz - az), ax, ay, bx, by, depth, width)
  \/ IntersectionHelper(depth - 2 * ax, 2 * (bx - ax), ay, az, by, bz, width, height)
  \/ IntersectionHelper(width - 2 * ay, 2 * (by - ay), ax, az, bx, bz, depth, height)

\* graspIntersectionHelper: whether the segment from point_a to point_b meets
\* one of the six faces.  For the face at coordinate s * extent / 2 of an axis,
\* t = (s * extent / 2 - a) / (b - a) = (s * extent - 2 a) / (2 (b - a)).
GraspIntersectionHelper(depth, width, height, point_a, point_b) ==
  LET ax == point_a[1]  ay == point_a[2]  az == point_a[3]
      bx == point_b[1]  by == point_b[2]  bz == point_b[3]
  IN
  \/ IntersectionHelper(height - 2 * az, 2 * (bz - az), ax, ay, bx, by, depth, width)
  \/ IntersectionHelper(-height - 2 * az, 2 * (bz - az), ax, ay, bx, by, depth, width)
  \/ IntersectionHelper(depth - 2 * ax, 2 * (bx - ax), ay, az, by, bz, width, height)
  \/ IntersectionHelper(-depth - 2 * ax, 2 * (bx - ax), ay, az, by, bz, width, height)
  \/ IntersectionHelper(width - 2 * ay, 2 * (by - ay), ax, az, bx, bz, depth, height)
  \/ IntersectionHelper(-width - 2 * ay, 2 * (by - ay), ax, az, bx, bz, depth, height)

\* generateGrasps has enumerated a pose for a cuboid
InitGenerate ==
  /\ gpc = "pose"
  /\ cuboid \in Cuboids
  /\ grasp_pose \in GraspPoses
  /\ g_possible_grasps = <<>>

\* the pose does not intersect the cuboid and becomes a candidate
AddGrasp ==
  /\ gpc = "pose"
  /\ ~GraspIntersectionHelper(cuboid[1], cuboid[2], cuboid[3],
                              grasp_pose.point_a, grasp_pose.point_b)
  /\ g_possible_grasps' = Append(g_possible_grasps, grasp_pose)
  /\ gpc' = "done"
  /\ UNCHANGED <<cuboid, grasp_pose>>

\* the pose intersects the cuboid and is discarded
DiscardGrasp ==
  /\ gpc = "pose"
  /\ GraspIntersectionHelper(cuboid[1], cuboid[2], cuboid[3],
                             grasp_pose.point_a, grasp_pose.point_b)
  /\ gpc' = "done"
  /\ UNCHANGED <<cuboid, grasp_pose, g_possible_grasps>>

NextGenerate ==
  \/ AddGrasp /\ UNCHANGED <<fvars, cvars, pvars, bvars>>
  \/ DiscardGrasp /\ UNCHANGED <<fvars, cvars, pvars, bvars>>

InitGenerateSpec == InitF /\ InitC /\ InitP /\ InitB /\ InitGenerate

SpecGenerate == InitGenerateSpec /\ [][NextGenerate]_vars

\* ------------------------------------------- filterGrasps under fair scheduling
\* The steps of the thread that called filterGrasps, once the call is made.
CallerStep ==
  \/ \E k \in 0..MaxHW, frame \in Frames, lt \in UninitTransforms,
        crash \in BOOLEAN, shared \in BOOLEAN :
       FilterGraspsHelper(k, frame, lt, crash, shared) /\ Idle
  \/ CreateThread /\ Idle
  \/ JoinAll /\ Idle
  \/ AfterHelper /\ Idle

\* The steps of thread w of the boost::thread_group: its solver calls return,
\* and it takes the mutex when the mutex is free.
ThreadStep(w) ==
  \/ \E code \in ErrorCodes : GraspIK(w, code) /\ Idle
  \/ \E code \in ErrorCodes : PregraspIK(w, code) /\ Idle
  \/ Lock(w) /\ Idle
  \/ PushBack(w) /\ Idle

\* The same program where the scheduler lets every thread that can take a
\* step take one in the end.  Whether and when the caller calls or takes the
\* result is left open.
SpecFair ==
  /\ Init
  /\ [][Next]_vars
  /\ WF_vars(CallerStep)
  /\ \A w \in Threads : WF_vars(ThreadStep(w))

\* -------------------------------------------- filterGrasps, the two runs compared
\* The same calls on a robot whose solvers load, whose solver base frame is a
\* link of the robot model and whose solver answers SUCCESS or NO_IK_SOLUTION,
\* with the first run's solver calls kept.
SolverAnswers == {Success, NoIkSolution}

NextRerun ==
  \/ \E n \in 1..MaxGrasps, fp \in BOOLEAN, hw \in 1..MaxHW :
       FilterGrasps(n, 1, fp, hw, "link", <<>>) /\ Idle
  \/ \E shared \in BOOLEAN :
       FilterGraspsHelper(NumThreads(call.hw, call.n, verbose), "link", "uninit_a",
                          FALSE, shared) /\ Idle
  \/ CreateThread /\ Idle
  \/ \E w \in Threads, code \in SolverAnswers : GraspIK(w, code) /\ Idle
  \/ \E w \in Threads, code \in SolverAnswers : PregraspIK(w, code) /\ Idle
  \/ \E w \in Threads : Lock(w) /\ Idle
  \/ \E w \in Threads : PushBack(w) /\ Idle
  \/ JoinAll /\ Idle
  \/ AfterHelperObserved /\ Idle
  \/ Return /\ Idle

SpecRerun == Init /\ [][NextRerun]_vars

\* ------------------------------------------------ filterGrasps, longer ranges
\* The same calls on the same robot with up to MaxSeedGrasps candidates, so
\* that a thread's range holds several solver calls after its first success.
NextSeed ==
  \/ \E n \in 1..MaxSeedGrasps, fp \in BOOLEAN, hw \in 1..MaxHW :
       FilterGrasps(n, 1, fp, hw, "link", <<>>) /\ Idle
  \/ FilterGraspsHelper(NumThreads(call.hw, call.n, verbose), "link", "uninit_a",
                        FALSE, FALSE) /\ Idle
  \/ CreateThread /\ Idle
  \/ \E w \in Threads, code \in SolverAnswers : GraspIK(w, code) /\ Idle
  \/ \E w \in Threads, code \in SolverAnswers : PregraspIK(w, code) /\ Idle
  \/ \E w \in Threads : Lock(w) /\ Idle
  \/ \E w \in Threads : PushBack(w) /\ Idle
  \/ JoinAll /\ Idle
  \/ AfterHelper /\ Idle
  \/ Return /\ Idle

SpecSeed == Init /\ [][NextSeed]_vars

\* ==================================================================== claims

\* ---------------------------------------------------------------- C1
\* C1: whenever chooseBestGrasp returns true, `chosen` has been assigned in
\* that call to an element of the list whose selection score (yall) is maximal
\* in the list; it never returns true with `chosen` still the caller's value.
C1_TrueMeansChosenIsMaximal ==
  c_ret = "true" =>
    /\ chosen.grasp \in 0..(Len(c_grasps) - 1)
    /\ chosen.sin_arg = c_grasps[chosen.grasp + 1]
    /\ \A j \in 1..Len(c_grasps) :
         ~Greater(Asin(c_grasps[j]), Asin(chosen.sin_arg))

\* ---------------------------------------------------------------- C2
\* candidate c passed the IK calls of the current helper run
Accepted(c) ==
  /\ ikLog[c].grasp = Success
  /\ call.filter_pregrasp => ikLog[c].pregrasp = Success

Occurrences(c) ==
  Cardinality({j \in 1..Len(filtered_grasps) : filtered_grasps[j].grasp = c})

\* C2: at every moment of a helper run the result set holds only accepted
\* candidates, each at most once; when the helper returns it holds every
\* accepted candidate exactly once and nothing else, and every candidate of
\* every thread's range has been given to the solver, whatever the error
\* codes of the candidates before it.
C2_ResultSetIsTheAcceptedCandidates ==
  /\ pc = "spawn" =>
       \A j \in 1..Len(filtered_grasps) :
         /\ filtered_grasps[j].grasp \in 0..(call.n - 1)
         /\ Accepted(filtered_grasps[j].grasp)
         /\ Occurrences(filtered_grasps[j].grasp) = 1
  /\ (pc = "check" /\ result) =>
       /\ \A c \in 0..(call.n - 1) :
            Occurrences(c) = IF Accepted(c) THEN 1 ELSE 0
       /\ Len(filtered_grasps) = Cardinality({c \in 0..(call.n - 1) : Accepted(c)})
       /\ \A w \in 0..(num_threads - 1) :
            \A c \in th[w].start..(th[w].end - 1) : ikLog[c].grasp \in ErrorCodes

\* two threads ran; candidate 0 had a solver error on its pre-grasp and is
\* absent, candidate 1 passed both calls and is there
C2_Witness ==
  /\ pc = "check" /\ result /\ num_threads = 2 /\ call.filter_pregrasp
  /\ ikLog[0].grasp = Success /\ ikLog[0].pregrasp = Failure
  /\ ikLog[1].grasp = Success /\ ikLog[1].pregrasp = Success
  /\ Len(filtered_grasps) = 1 /\ filtered_grasps[1].grasp = 1

\* ---------------------------------------------------------------- C3
\* C3: for every candidate count n >= 1 and thread count t in 1..n the ranges
\* handed to the threads are contiguous from 0, pairwise disjoint, cover
\* 0..n-1 exactly once, and none holds more than ceil(n/t) candidates.
C3_RangesPartitionTheCandidates ==
  ppc = "done" =>
    /\ Len(p_ranges) = p_threads
    /\ p_ranges[1][1] = 0
    /\ p_ranges[p_threads][2] = p_n
    /\ \A r \in 1..p_threads :
         /\ p_ranges[r][1] <= p_ranges[r][2]
         /\ p_ranges[r][2] - p_ranges[r][1] <= CeilDiv(p_n, p_threads)
         /\ r < p_threads => p_ranges[r + 1][1] = p_ranges[r][2]
    /\ \A c \in 0..(p_n - 1) :
         Cardinality({r \in 1..p_threads :
                        p_ranges[r][1] <= c /\ c < p_ranges[r][2]}) = 1

\* 36 candidates on 28 threads: the double product for the 21st thread lands
\* above 27 and its range ends at 28
C3_Witness ==
  /\ ppc = "done" /\ p_n = 36 /\ p_threads = 28
  /\ p_ranges[21] = <<26, 28>>
  /\ p_ranges[22] = <<28, 29>>

\* ---------------------------------------------------------------- C4
InPushBack == {w \in Threads : th[w].pc = "push_back"}
InSolver == {w \in Threads : th[w].pc \in {"grasp_ik", "pregrasp_ik"}}

\* C4: at most one thread at a time is inside the push_back; the mutex is
\* held by exactly the thread that is inside it, so by no thread that is in a
\* searchPositionIK call or anywhere else.
C4_LockHeldOnlyForTheAppend ==
  /\ Cardinality(InPushBack) <= 1
  /\ \A w \in Threads : (lock = w) <=> (w \in InPushBack)
  /\ \A w \in InSolver : lock # w

\* thread 0 is appending, thread 1 waits for the mutex
C4_Witness ==
  /\ lock = 0 /\ th[0].pc = "push_back" /\ th[1].pc = "lock"

\* ---------------------------------------------------------------- C5
\* C5: the helper has returned from join_all only when every thread it created
\* has run its loop to the end of its range, and whenever the main thread is
\* outside the helper's thread phase no thread is solving or appending; a
\* finished thread has gone through its whole range whatever the others found.
C5_HelperReturnsAfterAllThreads ==
  /\ (pc = "check" /\ result) =>
       \A w \in 0..(num_threads - 1) :
          /\ th[w].pc = "done"
          /\ th[w].i = th[w].end
  /\ pc \in {"idle", "helper", "check", "done"} =>
       \A w \in Threads : th[w].pc \in {"none", "done"}
  /\ \A w \in Threads :
       th[w].pc = "done" =>
          \A c \in th[w].start..(th[w].end - 1) : ikLog[c].grasp # NoCode

\* the helper returned after two threads, both of which found a solution
C5_Witness ==
  /\ pc = "check" /\ result /\ num_threads = 2
  /\ th[0].pc = "done" /\ th[1].pc = "done"
  /\ Len(filtered_grasps) = 2

\* ---------------------------------------------------------------- C6
\* C6: the helper runs at most twice in a call; it runs a second time exactly
\* when the first run left no solution, and then with verbose on and one
\* thread; when the second run accepts no candidate either, the call hands
\* back an empty list.
C6_OneVerboseRerunOnEmpty ==
  /\ runs <= 2
  /\ (runs = 1 /\ pc \in {"spawn", "check"}) => ~verbose
  /\ (runs = 2 /\ pc \in {"spawn", "check", "done"}) => verbose /\ num_threads = 1
  /\ (pc = "done" /\ runs >= 1) => (runs = 2 <=> firstCount = 0)
  /\ (pc = "done" /\ runs = 2 /\ \A c \in 0..(call.n - 1) : ~Accepted(c)) =>
       filtered_grasps = <<>>

\* two threads found nothing, the verbose run on one thread found nothing, and
\* the call returned success with an empty list
C6_Witness ==
  /\ pc = "done" /\ runs = 2 /\ firstThreads = 2 /\ firstCount = 0
  /\ ~instNull /\ ~noLink /\ ~invalidRead
  /\ ret = "true" /\ filtered_grasps = <<>>

\* ---------------------------------------------------------------- C7
\* C7: once getSolverInstance() has returned a null handle, filterGrasps fails
\* at once: the helper is not entered again, no thread is started, and the
\* call returns failure.
C7_SolverFailureFailsImmediately ==
  instNull =>
    /\ pc \in {"check", "done"}
    /\ pc = "done" => ret = "false"

\* ---------------------------------------------------------------- C8
\* C8 as claimed: filterGrasps returns failure only when the candidate list is
\* empty, a solver cannot be instantiated, or the arm group has zero or more
\* than one attached end effector (stated for the calls in which line 203
\* read a valid solver handle).
C8_FailureOnlyInThreeCases ==
  (pc = "done" /\ ret = "false" /\ ~invalidRead) =>
    \/ call.n = 0
    \/ instNull
    \/ call.ee = 0 \/ call.ee > 1

\* C8 as amended: ... or the solver's base frame is not the robot model's
\* frame and names no link of the robot model; in every other case in which
\* it returns, it returns success.
C8_FailureOnlyInFourCases ==
  pc = "done" =>
    /\ ret \in {"true", "false"}
    /\ ret = "false" =>
         \/ call.n = 0
         \/ instNull
         \/ call.ee = 0 \/ call.ee > 1
         \/ noLink

\* no candidate was feasible in either run and the call returned success
C8_Witness ==
  /\ pc = "done" /\ ret = "true" /\ runs = 2
  /\ call.n = 2 /\ call.ee = 1 /\ ~instNull /\ ~noLink /\ ~invalidRead
  /\ \A c \in 0..1 : ikLog[c].grasp = NoIkSolution
  /\ filtered_grasps = <<>>

\* ---------------------------------------------------------------- C9
\* C9: a call with an empty candidate list, or with an arm group that has zero
\* or more than one attached end effector, returns failure without any
\* getSolverInstance() call, without any thread and without any helper run.
C9_InputErrorsFailBeforeAnyWork ==
  (pc # "idle" /\ (call.n = 0 \/ call.ee = 0 \/ call.ee > 1)) =>
    /\ pc = "done"
    /\ ret = "false"
    /\ runs = 0
    /\ instCalls = 0
    /\ started = 0

\* two candidates, two attached end effectors, nothing loaded before or after
C9_Witness ==
  /\ pc = "done" /\ ret = "false"
  /\ call.n = 2 /\ call.ee = 2 /\ call.hw = 2
  /\ instCalls = 0 /\ started = 0 /\ kin_solvers = <<>>

\* ---------------------------------------------------------------- C10
\* C10: whenever filterGrasps returns failure, the solution list it hands back
\* is empty, whatever the list held when the call began.
C10_FailureHandsBackEmptyList ==
  (pc = "done" /\ ret = "false") => filtered_grasps = <<>>

\* ---------------------------------------------------------------- C11
\* the helper's loop has run to its end
PassOver == bpc = "loop" /\ grasp_it = Len(HelperList)

\* the solutions of list whose grasp configuration, put into the caller's robot
\* state, is free of collision in scene
Survivors(list, scene, given) ==
  LET Free_(sol) == ~IsStateColliding(scene, [given EXCEPT !.arm = sol.grasp_ik_solution_])
  IN SelectSeq(list, Free_)

\* C11: when a pass of the helper ends, its vector is the vector it received
\* with exactly the solutions in collision taken out, the others unchanged and
\* in their order, and every solution of the received vector has been tested
\* once, in order.
C11_PassRemovesExactlyTheColliding ==
  PassOver =>
    /\ HelperList = Survivors(h_input, cloned_scene, robot_state)
    /\ Len(b_tests) = Len(h_input)
    /\ \A j \in 1..Len(b_tests) : b_tests[j].grasp = h_input[j].grasp

\* of two solutions the first collided and was erased, the second was tested
\* after it and stayed
C11_Witness ==
  /\ PassOver /\ Len(h_input) = 2
  /\ HelperList = <<h_input[2]>>
  /\ b_tests[1].colliding /\ ~b_tests[2].colliding

\* ---------------------------------------------------------------- C12
\* C12: a call on the non-empty list that the call before it handed back, with
\* the same robot state and with the scene unchanged since that call cloned
\* it, returns success and hands back the very same list.
C12_SecondRunChangesNothing ==
  (bpc = "done" /\ b_again) =>
    /\ b_ret = "true"
    /\ possible_grasps = b_input

\* the scene's obstacle is in the way of candidate 0; the list handed back
\* held candidate 1 alone and comes back from the second call as it went in
C12_Witness ==
  /\ bpc = "done" /\ b_again
  /\ cloned_scene = 1 /\ robot_state.other = 0
  /\ b_input = <<SolutionFor(1)>>
  /\ possible_grasps = <<SolutionFor(1)>>
  /\ b_passes = 1

\* ---------------------------------------------------------------- C13
\* the second pass, when there is one, is verbose and runs over the list as
\* the call received it
SecondPassIsDiagnostic ==
  (b_passes = 2 /\ bpc \in {"loop", "sleep", "done"}) =>
    /\ h_verbose
    /\ h_list = "original"
    /\ h_input = b_input

\* C13 as claimed: there are never more than two passes; there is a second
\* pass exactly when the first removed every solution, and it is verbose and
\* runs over the original list.
C13_RerunWheneverAllRemoved ==
  /\ b_passes <= 2
  /\ (bpc = "done" /\ b_passes >= 1) => (b_passes = 2 <=> b_first_size = 0)
  /\ SecondPassIsDiagnostic

\* C13 as amended: there is a second pass exactly when the first removed every
\* solution and the call was not made with verbose on.
C13_RerunWhenAllRemovedAndNotVerbose ==
  /\ b_passes <= 2
  /\ (bpc = "done" /\ b_passes >= 1) =>
       (b_passes = 2 <=> (b_first_size = 0 /\ ~b_verbose))
  /\ SecondPassIsDiagnostic

\* three solutions, all in collision: the first pass removed them, the second
\* ran over the original three
C13_Witness ==
  /\ bpc = "done" /\ ~b_verbose /\ b_passes = 2
  /\ Len(b_input) = 3 /\ b_first_size = 0
  /\ h_input = b_input /\ Len(b_tests) = 3

\* ---------------------------------------------------------------- C14
\* C14: within one filterGraspsInCollision call the scene is cloned once, and
\* every isStateColliding call of the call, those of the re-run included, is
\* made on that one clone, whatever happens to the live scene meanwhile.
C14_OneSnapshotPerCall ==
  /\ b_clones <= 1
  /\ \A j \in 1..Len(b_all_tests) : b_all_tests[j].scene = b_first_scene

\* ---------------------------------------------------------------- C15
\* C15: every isStateColliding call is made on a robot state that has the
\* caller's values for the joints outside the arm group and the tested
\* solution's grasp configuration for the arm group, whatever robot_state_
\* held from the constructor, an earlier call or an earlier pass; while a pass
\* runs, robot_state_ has the caller's values outside the arm group.
C15_TestsSeeTheCallersState ==
  /\ \A j \in 1..Len(b_all_tests) :
       /\ b_all_tests[j].other = robot_state.other
       /\ b_all_tests[j].arm = SolutionFor(b_all_tests[j].grasp).grasp_ik_solution_
  /\ bpc \in {"loop", "sleep"} => robot_state_.other = robot_state.other

\* the re-run is testing its second solution: robot_state_ went through the
\* configurations of the first pass and took the caller's joint value 1 again
C15_Witness ==
  /\ bpc = "loop" /\ b_passes = 2 /\ Len(b_tests) = 2
  /\ robot_state.other = 1
  /\ b_tests[2].other = 1 /\ b_tests[2].arm = robot_state_.arm
  /\ Len(b_all_tests) = 4

\* ---------------------------------------------------------------- C16
\* c_grasps with each solution named by its index, as ChooseStep names it
Named(list) == [j \in 1..Len(list) |-> [grasp |-> j - 1, sin_arg |-> list[j]]]

Orders(n) == {f \in [1..n -> 1..n] : \A a, b \in 1..n : a # b => f[a] # f[b]}

\* C16: when chooseBestGrasp has returned true, the grasp it chose is the one
\* it chooses from the same solutions given in any other order.
C16_ChoiceIndependentOfOrder ==
  c_ret = "true" =>
    \A f \in Orders(Len(c_grasps)) :
      ChooseBestGrasp([j \in 1..Len(c_grasps) |-> Named(c_grasps)[f[j]]],
                      CallerChosen).grasp = chosen.grasp

\* ---------------------------------------------------------------- C17
\* C17: chooseBestGrasp returns false exactly when the list it was given is
\* empty, and then `chosen` is what the caller put there.
C17_FailsExactlyOnEmptyList ==
  cpc = "done" =>
    /\ c_ret \in {"true", "false"}
    /\ c_ret = "false" <=> Len(c_grasps) = 0
    /\ c_ret = "false" => chosen = CallerChosen

C17_Witness ==
  /\ cpc = "done" /\ c_ret = "false"
  /\ c_grasps = <<>> /\ chosen = CallerChosen

\* the loop of ChooseStep and ChooseLoop leave the same `chosen`
ChooseLoopIsTheLoop ==
  cpc = "done" => chosen = ChooseBestGrasp(Named(c_grasps), CallerChosen)

\* ---------------------------------------------------------------- C18
\* C18: a thread that is in a solver call uses the handle at its own index of
\* kin_solvers_, and no two threads that are in solver calls at the same time
\* use the same solver instance.
C18_OneSolverPerThread ==
  \A w \in InSolver :
    /\ th[w].kin_solver = kin_solvers[w + 1]
    /\ \A v \in InSolver : v # w => th[v].kin_solver # th[w].kin_solver

\* ---------------------------------------------------------------- C19
\* the candidates of the range from s on that come before c and whose grasp IK
\* succeeded in the current run
SolvedBefore(s, c) == {d \in s..(c - 1) : ikLog[d].grasp = Success}

Latest(S) == CHOOSE d \in S : \A e \in S : e <= d

\* C19: the seed given to the grasp IK call of candidate c in the range of
\* thread w is num_variables_ zeros when no candidate of that range before c
\* had a successful grasp IK, and otherwise the grasp IK solution of the last
\* such candidate; candidates of other ranges play no part.
C19_SeedComesFromOwnRange ==
  pc \in {"spawn", "check"} =>
    \A w \in Threads :
      \A c \in th[w].start..(th[w].end - 1) :
        ikLog[c].grasp # NoCode =>
          ikLog[c].seed = IF SolvedBefore(th[w].start, c) = {}
                            THEN ZeroCfg
                            ELSE GraspCfg(Latest(SolvedBefore(th[w].start, c)))

\* one thread has the range 0..3: candidates 0 and 1 were solved, candidate 2
\* was not, and candidate 3 was given the solution of candidate 1 as seed
C19_Witness ==
  /\ pc = "spawn" /\ num_threads = 1 /\ call.n = 4
  /\ th[0].start = 0 /\ th[0].end = 4
  /\ ikLog[0].grasp = Success /\ ikLog[0].seed = ZeroCfg
  /\ ikLog[1].grasp = Success /\ ikLog[1].seed = GraspCfg(0)
  /\ ikLog[2].grasp = NoIkSolution /\ ikLog[2].seed = GraspCfg(1)
  /\ ikLog[3].grasp # NoCode /\ ikLog[3].seed = GraspCfg(1)

\* ---------------------------------------------------------------- C20
\* candidate c passed the IK calls of the first helper run
AcceptedFirst(c) ==
  /\ firstRun.log[c].grasp = Success
  /\ call.filter_pregrasp => firstRun.log[c].pregrasp = Success

\* the pose of every solver call is the candidate's pose under link_transform,
\* the seed of a pre-grasp call is the candidate's grasp solution: the solver
\* gave equal answers to equal calls of the two runs
SolverWasDeterministic ==
  \A c \in 0..(call.n - 1) :
    LET samePose == link_transform = firstRun.link_transform IN
    /\ (samePose /\ ikLog[c].seed = firstRun.log[c].seed) =>
         ikLog[c].grasp = firstRun.log[c].grasp
    /\ (samePose /\ ikLog[c].grasp = Success /\ firstRun.log[c].grasp = Success) =>
         ikLog[c].pregrasp = firstRun.log[c].pregrasp

\* C20: when the verbose re-run has followed a first run and the solver was
\* deterministic, the re-run gave the solver the same pose and seed for every
\* candidate as the first run did and accepted the same candidates.
C20_RerunRepeatsTheFirstRun ==
  (pc = "done" /\ runs = 2 /\ SolverWasDeterministic) =>
    /\ link_transform = firstRun.link_transform
    /\ \A c \in 0..(call.n - 1) :
         /\ ikLog[c].seed = firstRun.log[c].seed
         /\ Accepted(c) <=> AcceptedFirst(c)

\* ---------------------------------------------------------------- C21
\* a filterGrasps call is between its entry and its return statement
InCall == pc \in {"helper", "spawn", "check"}

\* Under fair scheduling a call comes to its return statement or the process
\* ends in it: no thread waits for the mutex for ever and the helper is not
\* entered a third time.
ReturnsUnlessTheProcessEnds ==
  /\ [](runs <= 2)
  /\ InCall ~> pc \in {"done", "crashed"}

\* C21: under fair scheduling of the threads, with solver calls that return,
\* every filterGrasps call returns in the end, and the helper is entered at
\* most twice in it.
C21_EveryCallReturns ==
  /\ [](runs <= 2)
  /\ InCall ~> pc = "done"

\* ---------------------------------------------------------------- C22
\* the point of the segment at parameter n / D, times D
AtParameter(pose, n, D) ==
  [o \in 1..3 |-> D * pose.point_a[o] + n * (pose.point_b[o] - pose.point_a[o])]

\* the segment has a point in the plane of the face of axis o on side s
\* (s = 1 or -1); a crossing has a parameter with denominator 2 |b - a|
MeetsPlane(box, pose, o, s, n) ==
  LET D == 2 * Abs(pose.point_b[o] - pose.point_a[o]) IN
  /\ D # 0
  /\ n \in 0..D
  /\ 2 * AtParameter(pose, n, D)[o] = s * box[o] * D

\* that point lies within the face's extents
WithinFace(box, pose, o, n) ==
  LET D == 2 * Abs(pose.point_b[o] - pose.point_a[o]) IN
  \A q \in (1..3) \ {o} : 2 * Abs(AtParameter(pose, n, D)[q]) <= box[q] * D

CrossesFace(box, pose, o, s) ==
  \E n \in 0..(4 * MaxCoord) :
    MeetsPlane(box, pose, o, s, n) /\ WithinFace(box, pose, o, n)

\* C22: every candidate generateGrasps outputs passes the intersection test:
\* the segment from its pre-grasp offset point to its grasp point crosses
\* none of the six faces of the cuboid within the face's extents.
C22_OutputCrossesNoFace ==
  \A j \in 1..Len(g_possible_grasps) :
    \A o \in 1..3, s \in {-1, 1} : ~CrossesFace(cuboid, g_possible_grasps[j], o, s)

\* a candidate was put out whose segment goes through the plane of a face
\* outside that face, from one side of the cuboid to another
C22_Witness ==
  /\ gpc = "done"
  /\ Len(g_possible_grasps) = 1
  /\ \E o \in 1..3, s \in {-1, 1}, n \in 1..(4 * MaxCoord - 1) :
       /\ MeetsPlane(cuboid, g_possible_grasps[1], o, s, n)
       /\ ~WithinFace(cuboid, g_possible_grasps[1], o, n)

\* ---------------------------------------------------------------- C23
\* line 203 called getBaseFrame() through element 0 of the solver list and
\* that element was a null handle
NullHandleRead ==
  /\ invalidRead
  /\ Len(kin_solvers) > 0
  /\ kin_solvers[1] = NullSolver

\* C23: in every state of filterGrasps, the verbose re-run after a failed
\* solver instantiation included, every solver handle that is dereferenced
\* (for the base frame at line 203, or by a thread for IK) is an instantiated
\* solver; a null handle left in kin_solvers_ is never used.
C23_NoNullHandleIsUsed ==
  /\ ~NullHandleRead
  /\ \A w \in InSolver : th[w].kin_solver # NullSolver

\* ---------------------------------------------------------------- C24
\* candidate c lies in the range of a created thread
Assigned(c) == \E w \in Threads : th[w].pc # "none" /\ th[w].start <= c /\ c < th[w].end

\* C24: the thread count of a helper run is min(hardware_concurrency(), number
\* of candidates), or 1 in verbose mode; for a non-empty candidate list and
\* any value of hardware_concurrency(), 0 included, it is at least 1, so that
\* kin_solvers_ has an element 0 to read at line 203 and every candidate is in
\* the range of some thread.
C24_AtLeastOneThread ==
  (pc \in {"spawn", "check", "crashed"} /\ runs >= 1 /\ call.n > 0) =>
    /\ num_threads = NumThreads(call.hw, call.n, verbose)
    /\ num_threads >= 1
    /\ (~instNull /\ ~noLink) => Len(kin_solvers) >= 1
    /\ (pc = "spawn" /\ created = num_threads) =>
         \A c \in 0..(call.n - 1) : Assigned(c)

\* ---------------------------------------------------------------- C25
\* C25: the re-run of filterGraspsInCollision never changes the caller's list:
\* while it runs and after it the caller's list is empty as the first pass left
\* it, and a call whose first pass removed every solution returns success with
\* an empty list, whatever the re-run keeps of its private copy.
C25_RerunLeavesTheCallersListEmpty ==
  /\ (h_list = "original" /\ bpc \in {"helper", "loop", "sleep", "crashed", "done"}) =>
       possible_grasps = <<>>
  /\ (bpc = "done" /\ b_first_size = 0) =>
       /\ b_ret = "true"
       /\ possible_grasps = <<>>

\* the first pass removed all three solutions; the scene changed before the
\* re-run cloned it, and the re-run kept two of them in the private copy
C25_Witness ==
  /\ bpc = "done" /\ b_ret = "true" /\ b_passes = 2
  /\ Len(b_input) = 3 /\ b_first_size = 0
  /\ possible_grasps = <<>>
  /\ Len(original_possible_grasps) = 2

\* ---------------------------------------------------------------- C26
\* C26: every GraspSolution in the result set of a helper run carries the
\* grasp IK solution computed for its own candidate; its pre-grasp
\* configuration is the pre-grasp IK solution computed for that candidate when
\* filter_pregrasp is set and is empty when it is not; neither is a value
\* left from an earlier candidate of the thread's range.
C26_SolutionsCarryTheirOwnConfigurations ==
  (pc \in {"spawn", "check", "done"} /\ runs >= 1) =>
    \A j \in 1..Len(filtered_grasps) :
      LET s == filtered_grasps[j] IN
      /\ s.grasp \in 0..(call.n - 1)
      /\ s.grasp_ik_solution_ = GraspCfg(s.grasp)
      /\ s.pregrasp_ik_solution_ =
           IF call.filter_pregrasp THEN PregraspCfg(s.grasp) ELSE EmptyCfg

\* one thread solved candidates 0 and 1 one after the other, pre-grasp
\* filtering on, and both are in the result set
C26_Witness ==
  /\ pc = "done" /\ ret = "true" /\ runs = 1 /\ num_threads = 1
  /\ call.n = 2 /\ call.filter_pregrasp
  /\ Len(filtered_grasps) = 2
  /\ filtered_grasps[1] = [grasp |-> 0, grasp_ik_solution_ |-> GraspCfg(0),
                           pregrasp_ik_solution_ |-> PregraspCfg(0)]
  /\ filtered_grasps[2] = [grasp |-> 1, grasp_ik_solution_ |-> GraspCfg(1),
                           pregrasp_ik_solution_ |-> PregraspCfg(1)]

\* ---------------------------------------------------------------- C27
\* C27: after filterGrasps returns success the solution list holds only
\* solutions for candidates of that call, each candidate at most once: what
\* the list held on entry is gone, and every helper run, the verbose re-run
\* included, starts on an empty list.
C27_OnlyThisCallsSolutions ==
  /\ pc = "helper" => filtered_grasps = <<>>
  /\ (pc = "done" /\ ret = "true") =>
       /\ \A j \in 1..Len(filtered_grasps) :
            filtered_grasps[j].grasp \in 0..(call.n - 1)
       /\ \A c \in 0..(call.n - 1) : Occurrences(c) <= 1

\* the first run found nothing, the verbose re-run found both candidates
C27_Witness ==
  /\ pc = "done" /\ ret = "true" /\ runs = 2 /\ firstCount = 0
  /\ call.n = 2 /\ Len(filtered_grasps) = 2
  /\ Occurrences(0) = 1 /\ Occurrences(1) = 1
====
